---- MODULE Spec2Model ----
(***************************************************************************)
(* Day 5 almanac (src/src/day05.rs): components, correlation rules and     *)
(* tables, the almanac built from the instruction blocks, and the queries  *)
(* made on it (lookup, correlate, location_for, lowest_location_number_of).*)
(*                                                                         *)
(* Text is modelled after tokenisation: a header line is the pair of       *)
(* category names around "-to-", a rule line is the sequence of integers   *)
(* it holds, the seed line is the sequence of integers after "seeds:".     *)
(* Option<T> is a sequence: <<>> is None, <<x>> is Some(x).                *)
(* Coordinates stay far below the isize range, so no arithmetic wraps.     *)
(***************************************************************************)
EXTENDS Integers, Sequences, FiniteSets, Bags, TLC

VARIABLES pc, instructions, tables, op, arg, result,
          deck, originals, prizes, drawn

\* the decks of GameRules::claim_prizes and the cards its loop has drawn
game_vars == <<deck, originals, prizes, drawn>>

vars == <<pc, instructions, tables, op, arg, result, deck, originals, prizes, drawn>>

-----------------------------------------------------------------------------
(* Bounds of the model *)

\* largest coordinate handed to a query
MaxCoord == 3
\* largest number of integers on a seed line
MaxSeeds == 2
\* largest number of blocks (tables) in the instructions
MaxTables == 2
\* largest number of rule lines in a block of the single-table specification
MaxRules == 2
\* largest number of integers handed to SeedFarm::new
MaxFarmNumbers == 5
\* largest integer handed to SeedFarm::new
MaxFarmCoord == 2
\* largest number of cards in the deck handed to GameRules::claim_prizes
MaxCards == 4
\* number of non-joker cards (_2, _3, ...) a hand is dealt from
MaxNonJokers == 5
\* largest number of directions in the instruction list of a ghost walk
MaxDirections == 2
\* largest seed coordinate queried on the published example
MaxExampleSeed == 99

-----------------------------------------------------------------------------
(* Option<T> *)

None == <<>>

Some(x) == <<x>>

RECURSIVE SeqMin(_)
\* Iterator::min over a sequence of integers: None when it is empty
SeqMin(s) ==
    IF s = <<>> THEN None
    ELSE LET rest == SeqMin(Tail(s))
         IN  IF rest = None \/ Head(s) <= rest[1] THEN Some(Head(s)) ELSE rest

-----------------------------------------------------------------------------
(* Component *)

Kinds == <<"Seed", "Soil", "Fertilizer", "Water", "Light", "Temperature", "Humidity", "Location">>

Names == <<"seed", "soil", "fertilizer", "water", "light", "temperature", "humidity", "location">>

\* a ComponentKind applied to a number
Component(kind, n) == [kind |-> kind, number |-> n]

\* Component::parse panics on a name that is no category
parse_kind_panics(name) == \A i \in 1..Len(Names) : Names[i] # name

parse_kind(name) == Kinds[CHOOSE i \in 1..Len(Names) : Names[i] = name]

number(c) == c.number

is_a(c, kind) == c = Component(kind, number(c))

-----------------------------------------------------------------------------
(* CorrelationRule: range is from..end (end excluded) *)

contains_wrong_end(range, n) == range.from <= n /\ n <= range.end

\* Range::contains
contains(range, n) == range.from <= n /\ n < range.end

apply_wrong_sign(rule, n) ==
    IF contains(rule.range, n) THEN Some(n - rule.offset) ELSE None

apply(rule, n) ==
    IF contains(rule.range, n) THEN Some(n + rule.offset) ELSE None

-----------------------------------------------------------------------------
(* CorrelationTable *)

parse_rule_panics(line) == Len(line) # 3

parse_rule_swapped(line) ==
    LET to == line[2]
        from == line[1]
        range_length == line[3]
    IN  [range |-> [from |-> from, end |-> from + range_length], offset |-> to - from]

parse_rule_end_inclusive(line) ==
    LET to == line[1]
        from == line[2]
        range_length == line[3]
    IN  [range |-> [from |-> from, end |-> from + range_length + 1], offset |-> to - from]

\* a rule line is  to from range_length
parse_rule(line) ==
    LET to == line[1]
        from == line[2]
        range_length == line[3]
    IN  [range |-> [from |-> from, end |-> from + range_length], offset |-> to - from]

parse_header_panics(header) ==
    parse_kind_panics(header[1]) \/ parse_kind_panics(header[2])

parse_header(header) == <<parse_kind(header[1]), parse_kind(header[2])>>

parse_header_panics_any(instr) ==
    \E i \in 1..Len(instr) : parse_header_panics(instr[i].header)

parse_table_panics(block) ==
    \/ parse_header_panics(block.header)
    \/ \E k \in 1..Len(block.lines) : parse_rule_panics(block.lines[k])

parse_table(block) ==
    LET h == parse_header(block.header)
    IN  [source |-> h[1], destination |-> h[2],
         rules |-> [k \in 1..Len(block.lines) |-> parse_rule(block.lines[k])]]

\* only the first rule of the list is tried
find_map_apply_first_only(rules, n) ==
    IF rules = <<>> THEN None ELSE apply(Head(rules), n)

RECURSIVE find_map_apply_last(_, _)
\* the last Some, in list order
find_map_apply_last(rules, n) ==
    IF rules = <<>> THEN None
    ELSE LET r == apply(rules[Len(rules)], n)
         IN  IF r # None THEN r ELSE find_map_apply_last(SubSeq(rules, 1, Len(rules) - 1), n)

RECURSIVE find_map_apply(_, _)
\* rules.iter().find_map(|rule| rule.apply(n)): the first Some, in list order
find_map_apply(rules, n) ==
    IF rules = <<>> THEN None
    ELSE LET r == apply(Head(rules), n)
         IN  IF r # None THEN r ELSE find_map_apply(Tail(rules), n)

lookup_no_fallback(table, c) ==
    IF ~is_a(c, table.source) THEN None
    ELSE LET found == find_map_apply(table.rules, number(c))
         IN  IF found # None THEN Some(Component(table.destination, found[1])) ELSE None

lookup(table, c) ==
    IF ~is_a(c, table.source) THEN None
    ELSE LET found == find_map_apply(table.rules, number(c))
             n == IF found # None THEN found[1] ELSE number(c)
         IN  Some(Component(table.destination, n))

-----------------------------------------------------------------------------
(* Seeds *)

\* SeedBag::parse and SeedBag::iter: every number of the seed line is a seed
bag_iter(numbers) == [i \in 1..Len(numbers) |-> Component("Seed", numbers[i])]

farm_new_second_is_end(numbers) ==
    [i \in 1..(Len(numbers) \div 2) |->
        [from |-> numbers[2 * i - 1], end |-> numbers[2 * i]]]

\* SeedFarm::new: chunks_exact(2) pairs the numbers as (start, count) and
\* leaves an unpaired last number out
farm_new(numbers) ==
    [i \in 1..(Len(numbers) \div 2) |->
        [from |-> numbers[2 * i - 1], end |-> numbers[2 * i - 1] + numbers[2 * i]]]

field_iter_inclusive(range) ==
    IF range.end < range.from THEN <<>>
    ELSE [i \in 1..(range.end - range.from + 1) |-> Component("Seed", range.from + i - 1)]

\* SeedField::iter: every coordinate of the range, ascending, as a seed
field_iter(range) ==
    IF range.end <= range.from THEN <<>>
    ELSE [i \in 1..(range.end - range.from) |-> Component("Seed", range.from + i - 1)]

RECURSIVE farm_iter_dedup(_)
\* a coordinate that an earlier field yielded is skipped
farm_iter_dedup(fields) ==
    IF fields = <<>> THEN <<>>
    ELSE LET before == farm_iter_dedup(SubSeq(fields, 1, Len(fields) - 1))
             seen == {before[i] : i \in 1..Len(before)}
         IN  before \o SelectSeq(field_iter(fields[Len(fields)]), LAMBDA c : c \notin seen)

RECURSIVE farm_iter(_)
\* SeedFarm::iter: the fields' coordinates, field after field
farm_iter(fields) ==
    IF fields = <<>> THEN <<>>
    ELSE field_iter(Head(fields)) \o farm_iter(Tail(fields))

-----------------------------------------------------------------------------
(* Almanac *)

parse_panics(instr) == \E i \in 1..Len(instr) : parse_table_panics(instr[i])

parse(instr) == [i \in 1..Len(instr) |-> parse_table(instr[i])]

RECURSIVE correlate_last(_, _)
\* the last table, in list order, whose lookup is Some
correlate_last(ts, c) ==
    IF ts = <<>> THEN None
    ELSE LET r == lookup(ts[Len(ts)], c)
         IN  IF r # None THEN r ELSE correlate_last(SubSeq(ts, 1, Len(ts) - 1), c)

RECURSIVE correlate(_, _)
\* tables.iter().find_map(|table| table.lookup(component))
correlate(ts, c) ==
    IF ts = <<>> THEN None
    ELSE LET r == lookup(Head(ts), c)
         IN  IF r # None THEN r ELSE correlate(Tail(ts), c)

RECURSIVE fold_lookup(_, _)
\* the fold of location_for, from the accumulator acc over the tables ts
fold_lookup(ts, acc) ==
    IF ts = <<>> THEN acc
    ELSE fold_lookup(Tail(ts), IF acc = None THEN None ELSE lookup(Head(ts), acc[1]))

location_for(ts, c) == fold_lookup(ts, Some(c))

RECURSIVE filter_map_location(_, _)
\* seeds.filter_map(|seed| self.location_for(seed)).map(|c| c.number())
filter_map_location(ts, seeds) ==
    IF seeds = <<>> THEN <<>>
    ELSE LET r == location_for(ts, Head(seeds))
         IN  (IF r = None THEN <<>> ELSE <<number(r[1])>>)
                 \o filter_map_location(ts, Tail(seeds))

lowest_location_number_of(ts, seeds) == SeqMin(filter_map_location(ts, seeds))

-----------------------------------------------------------------------------
(* Interval form of the lookup and of the pipeline (spec.md 4.1, 4.2, 4.3). *)
(* The source evaluates a seed range coordinate by coordinate (farm_iter);  *)
(* the interval form is the evaluation the specification describes. A       *)
(* piece is a destination interval with the shift that produced it, so its  *)
(* source interval is the destination moved back by the shift.              *)

Max2(a, b) == IF a >= b THEN a ELSE b

Min2(a, b) == IF a <= b THEN a ELSE b

Interval(from, end) == [from |-> from, end |-> end]

IsEmpty(I) == I.end <= I.from

Piece(from, end, shift) == [range |-> Interval(from + shift, end + shift), shift |-> shift]

RECURSIVE rule_pieces(_, _)
\* one shifted piece for every rule whose source interval meets I
rule_pieces(rules, I) ==
    IF rules = <<>> THEN <<>>
    ELSE LET r == Head(rules)
             lo == Max2(I.from, r.range.from)
             hi == Min2(I.end, r.range.end)
         IN  (IF lo < hi THEN <<Piece(lo, hi, r.offset)>> ELSE <<>>)
                 \o rule_pieces(Tail(rules), I)

covered(rules, n) == \E k \in 1..Len(rules) : contains(rules[k].range, n)

RECURSIVE remainder_pieces(_, _, _)
\* the maximal runs of I from coordinate a on that no rule covers, unshifted
remainder_pieces(rules, I, a) ==
    IF a >= I.end THEN <<>>
    ELSE IF covered(rules, a) THEN remainder_pieces(rules, I, a + 1)
    ELSE LET stops == {b \in (a + 1)..I.end : b = I.end \/ covered(rules, b)}
             b == CHOOSE x \in stops : \A y \in stops : x <= y
         IN  <<Piece(a, b, 0)>> \o remainder_pieces(rules, I, b)

\* interval form of the lookup of one table
lookup_interval(table, I) ==
    rule_pieces(table.rules, I) \o remainder_pieces(table.rules, I, I.from)

RECURSIVE stage_intervals(_, _)
\* one stage: the destination intervals of every interval of the working set
stage_intervals(table, work) ==
    IF work = <<>> THEN <<>>
    ELSE LET pieces == lookup_interval(table, Head(work))
         IN  [k \in 1..Len(pieces) |-> pieces[k].range] \o stage_intervals(table, Tail(work))

RECURSIVE evaluate_intervals(_, _)
\* the working set folded through the tables in order
evaluate_intervals(ts, work) ==
    IF ts = <<>> THEN work
    ELSE evaluate_intervals(Tail(ts), stage_intervals(Head(ts), work))

\* range mode of the minimizer: the least start among the terminal intervals
lowest_by_intervals(ts, I) ==
    LET terminal == evaluate_intervals(ts, IF IsEmpty(I) THEN <<>> ELSE <<I>>)
    IN  SeqMin([k \in 1..Len(terminal) |-> terminal[k].from])

-----------------------------------------------------------------------------
(* Inputs of the bounded runs *)

RECURSIVE SeqsUpTo(_, _)
\* the sequences over S of length at most n
SeqsUpTo(S, n) ==
    IF n = 0 THEN {<<>>}
    ELSE LET shorter == SeqsUpTo(S, n - 1)
         IN  shorter \cup {Append(s, x) : s \in {t \in shorter : Len(t) = n - 1}, x \in S}

Coords == 0..MaxCoord

\* the rule lists of a block of the pipeline runs: none; two disjoint rules,
\* [0,2)+2 and [3,4)-3, that leave 2 uncovered; two rules, [1,3)-1 and
\* [0,2)+2, that overlap on 1
Bodies ==
    { <<>>,
      << <<2, 0, 2>>, <<0, 3, 1>> >>,
      << <<0, 1, 2>>, <<2, 0, 2>> >> }

\* the header of block i: the i-th link of the chain, the link after it
\* (a gap or a repeat), or a name that is no category
HeadersAt(i) ==
    { <<Names[i], Names[i + 1]>>, <<Names[i + 1], Names[i + 2]>>, <<Names[i], "bogus">> }

BlocksAt(i) == {[header |-> h, lines |-> b] : h \in HeadersAt(i), b \in Bodies}

RECURSIVE InstructionsOfLen(_)
InstructionsOfLen(n) ==
    IF n = 0 THEN {<<>>}
    ELSE {Append(s, b) : s \in InstructionsOfLen(n - 1), b \in BlocksAt(n)}

Instructions == UNION {InstructionsOfLen(n) : n \in 1..MaxTables}

\* the rule lines of the single-table runs: [0,2)+2, [2,4)-2, [1,3)-1,
\* [3,4)+2, the empty [1,1), and a line that is no triple
RuleLines == { <<2, 0, 2>>, <<0, 2, 2>>, <<0, 1, 2>>, <<5, 3, 1>>, <<1, 1, 0>>, <<1, 2>> }

TableHeaders == { <<"seed", "soil">>, <<"soil", "fertilizer">> }

TableBlocks == {[header |-> h, lines |-> b] : h \in TableHeaders, b \in SeqsUpTo(RuleLines, MaxRules)}

QueryIntervals == {Interval(a, a + n) : a \in Coords, n \in 0..(MaxCoord + 1)}

\* the published example (src/examples/day05.txt, read by daily_example(5))
ExampleSeedLine == <<79, 14, 55, 13>>

ExampleInstructions ==
    << [header |-> <<"seed", "soil">>,
        lines |-> << <<50, 98, 2>>, <<52, 50, 48>> >>],
       [header |-> <<"soil", "fertilizer">>,
        lines |-> << <<0, 15, 37>>, <<37, 52, 2>>, <<39, 0, 15>> >>],
       [header |-> <<"fertilizer", "water">>,
        lines |-> << <<49, 53, 8>>, <<0, 11, 42>>, <<42, 0, 7>>, <<57, 7, 4>> >>],
       [header |-> <<"water", "light">>,
        lines |-> << <<88, 18, 7>>, <<18, 25, 70>> >>],
       [header |-> <<"light", "temperature">>,
        lines |-> << <<45, 77, 23>>, <<81, 45, 19>>, <<68, 64, 13>> >>],
       [header |-> <<"temperature", "humidity">>,
        lines |-> << <<0, 69, 1>>, <<1, 0, 69>> >>],
       [header |-> <<"humidity", "location">>,
        lines |-> << <<60, 56, 37>>, <<56, 93, 4>> >>] >>

SeedLines == SeqsUpTo(Coords, MaxSeeds)

QueryKinds == {"Seed", "Soil"}

QueryComponents == {Component(k, n) : k \in QueryKinds, n \in Coords}

-----------------------------------------------------------------------------
(* The almanac is built once, then queried any number of times *)

Init ==
    /\ pc = "start"
    /\ instructions = <<>>
    /\ tables = <<>>
    /\ op = "none"
    /\ arg = <<>>
    /\ result = None
    /\ deck = <<>>
    /\ originals = <<>>
    /\ prizes = <<>>
    /\ drawn = <<>>

ParseFrom(instr) ==
    /\ pc = "start"
    /\ instructions' = instr
    /\ IF parse_panics(instr)
       THEN pc' = "panicked" /\ tables' = <<>>
       ELSE pc' = "ready" /\ tables' = parse(instr)
    /\ UNCHANGED <<op, arg, result>>
    /\ UNCHANGED game_vars

Call(name, a, r) ==
    /\ pc = "ready"
    /\ pc' = "returned"
    /\ op' = name
    /\ arg' = a
    /\ result' = r
    /\ UNCHANGED <<instructions, tables>>
    /\ UNCHANGED game_vars

\* Almanac::parse on the instruction blocks
Parse == \E instr \in Instructions : ParseFrom(instr)

\* CorrelationTable::lookup on table i
Lookup == \E i \in 1..Len(tables), c \in QueryComponents :
    Call("lookup", <<i, c>>, lookup(tables[i], c))

Correlate == \E c \in QueryComponents : Call("correlate", c, correlate(tables, c))

LocationFor == \E c \in QueryComponents : Call("location_for", c, location_for(tables, c))

\* lowest_location_number_of(bag.iter()) for the bag of a seed line
LowestOfBag == \E line \in SeedLines :
    Call("lowest_of_bag", line, lowest_location_number_of(tables, bag_iter(line)))

\* lowest_location_number_of(farm.iter()) for the farm of a seed line
LowestOfFarm == \E line \in SeedLines :
    Call("lowest_of_farm", line, lowest_location_number_of(tables, farm_iter(farm_new(line))))

\* the caller takes the result; the almanac is unchanged and can be queried again
Return ==
    /\ pc = "returned"
    /\ pc' = "ready"
    /\ op' = "none"
    /\ arg' = <<>>
    /\ result' = None
    /\ UNCHANGED <<instructions, tables>>
    /\ UNCHANGED game_vars

Next == Parse \/ Lookup \/ Correlate \/ LocationFor \/ LowestOfBag \/ LowestOfFarm \/ Return

Spec == Init /\ [][Next]_vars

-----------------------------------------------------------------------------
(* One table: CorrelationTable::parse on one block, then lookups on it *)

ParseTable == \E block \in TableBlocks : ParseFrom(<<block>>)

\* interval form of the lookup on the table
LookupInterval == \E I \in QueryIntervals :
    Call("lookup_interval", I, lookup_interval(tables[1], I))

TableNext == ParseTable \/ Lookup \/ LookupInterval \/ Return

TableSpec == Init /\ [][TableNext]_vars

-----------------------------------------------------------------------------
(* The published example: parse_instructions / parse_updated_instructions  *)
(* on daily_example(5), then the queries of the tests                      *)

\* the example, and the example with one of its blocks left out
ExampleVariants ==
    {ExampleInstructions} \cup
    {SubSeq(ExampleInstructions, 1, k - 1) \o SubSeq(ExampleInstructions, k + 1, Len(ExampleInstructions)) :
        k \in 1..Len(ExampleInstructions)}

ExampleParse == \E instr \in ExampleVariants : ParseFrom(instr)

ExampleLocationFor == \E n \in 0..MaxExampleSeed :
    Call("location_for", Component("Seed", n), location_for(tables, Component("Seed", n)))

ExampleLowestOfBag ==
    Call("lowest_of_bag", ExampleSeedLine,
         lowest_location_number_of(tables, bag_iter(ExampleSeedLine)))

ExampleLowestOfFarm ==
    Call("lowest_of_farm", ExampleSeedLine,
         lowest_location_number_of(tables, farm_iter(farm_new(ExampleSeedLine))))

ExampleNext ==
    ExampleParse \/ ExampleLocationFor \/ ExampleLowestOfBag \/ ExampleLowestOfFarm \/ Return

ExampleSpec == Init /\ [][ExampleNext]_vars

(* The seed farm on its own: built from a list of integers, then iterated *)

FarmNumbers == SeqsUpTo(0..MaxFarmCoord, MaxFarmNumbers)

\* SeedFarm::new on a list of integers; the result is the farm's fields
FarmNew == \E numbers \in FarmNumbers :
    /\ pc = "start"
    /\ pc' = "farm"
    /\ op' = "farm_new"
    /\ arg' = numbers
    /\ result' = farm_new(numbers)
    /\ UNCHANGED <<instructions, tables>>
    /\ UNCHANGED game_vars

\* SeedFarm::iter on the farm that was built, collected
FarmIter ==
    /\ pc = "farm"
    /\ pc' = "iterated"
    /\ op' = "farm_iter"
    /\ result' = farm_iter(result)
    /\ UNCHANGED <<instructions, tables, arg>>
    /\ UNCHANGED game_vars

FarmNext == FarmNew \/ FarmIter

FarmSpec == Init /\ [][FarmNext]_vars

-----------------------------------------------------------------------------
(* Scratchcards: Card, CardDeck and GameRules::claim_prizes *)

Card(id, winning_numbers, own_numbers, is_copy) ==
    [id |-> id, winning_numbers |-> winning_numbers,
     own_numbers |-> own_numbers, is_copy |-> is_copy]

\* the winning numbers that are among the own numbers
winners_count_of_winning(card) ==
    Len(SelectSeq(card.winning_numbers,
                  LAMBDA n : \E i \in 1..Len(card.own_numbers) : card.own_numbers[i] = n))

\* Card::winners_count: the own numbers that are among the winning numbers
winners_count(card) ==
    Len(SelectSeq(card.own_numbers,
                  LAMBDA n : \E i \in 1..Len(card.winning_numbers) : card.winning_numbers[i] = n))

copy(card) == Card(card.id, card.winning_numbers, card.own_numbers, TRUE)

is_original_inverted(card) == card.is_copy = TRUE

is_original(card) == card.is_copy = FALSE

\* the first card of the vector is taken
draw_first(cards) ==
    IF cards = <<>> THEN [card |-> None, rest |-> cards]
    ELSE [card |-> Some(Head(cards)), rest |-> Tail(cards)]

\* CardDeck::draw: Vec::pop takes the last card of the vector
draw(cards) ==
    IF cards = <<>> THEN [card |-> None, rest |-> cards]
    ELSE [card |-> Some(cards[Len(cards)]), rest |-> SubSeq(cards, 1, Len(cards) - 1)]

RECURSIVE claim_copy(_, _)
\* CardDeck::claim_copy: a copy of the first card with that id
claim_copy(cards, id) ==
    IF cards = <<>> THEN None
    ELSE IF Head(cards).id = id THEN Some(copy(Head(cards)))
    ELSE claim_copy(Tail(cards), id)

put(cards, card) == Append(cards, card)

RECURSIVE put_copies(_, _, _, _)
\* for n in n..=winners_count: deck.put(originals.claim_copy(card.id + n).unwrap());
\* the unwrap of None panics and leaves the loop
put_copies(d, o, card, n) ==
    IF n > winners_count(card) THEN [deck |-> d, panicked |-> FALSE]
    ELSE LET c == claim_copy(o, card.id + n)
         IN  IF c = None THEN [deck |-> d, panicked |-> TRUE]
             ELSE put_copies(put(d, c[1]), o, card, n + 1)

\* the numbers on the cards: every card has the same two winning numbers and
\* zero, one or two winners among its own numbers
WinningNumbers == <<1, 2>>

OwnNumbers == { <<3>>, <<3, 1>>, <<2, 3, 1>>, <<1, 1>> }

\* the decks handed to claim_prizes: cards 1..N in ascending order of id
Decks ==
    UNION {{[i \in 1..n |-> Card(i, WinningNumbers, own[i], FALSE)] : own \in [1..n -> OwnNumbers]}
           : n \in 1..MaxCards}

\* GameRules::claim_prizes is called: both result decks start empty
ClaimPrizes == \E cards \in Decks :
    /\ pc = "start"
    /\ pc' = "loop"
    /\ op' = "claim_prizes"
    /\ arg' = cards
    /\ deck' = cards
    /\ originals' = <<>>
    /\ prizes' = <<>>
    /\ drawn' = <<>>
    /\ UNCHANGED <<instructions, tables, result>>

\* one turn of the while loop: a card is drawn, a copy of each card it wins
\* is put on the deck, and the card goes to the originals or to the prizes
Turn ==
    /\ pc = "loop"
    /\ draw(deck).card # None
    /\ LET card == draw(deck).card[1]
           r == put_copies(draw(deck).rest, originals, card, 1)
       IN  /\ drawn' = Append(drawn, card)
           /\ deck' = r.deck
           /\ IF r.panicked
              THEN pc' = "panicked" /\ UNCHANGED <<originals, prizes>>
              ELSE /\ pc' = "loop"
                   /\ IF is_original(card)
                      THEN originals' = put(originals, card) /\ UNCHANGED prizes
                      ELSE prizes' = put(prizes, card) /\ UNCHANGED originals
    /\ UNCHANGED <<instructions, tables, op, arg, result>>

\* the deck is empty: the loop ends and (originals, prizes) is returned
Finish ==
    /\ pc = "loop"
    /\ draw(deck).card = None
    /\ pc' = "done"
    /\ result' = <<originals, prizes>>
    /\ UNCHANGED <<instructions, tables, op, arg>>
    /\ UNCHANGED game_vars

CardNext == ClaimPrizes \/ Turn \/ Finish

CardSpec == Init /\ [][CardNext]_vars

\* the loop is sequential code that keeps running: a turn that can be taken
\* is taken
CardFairSpec == CardSpec /\ WF_vars(Turn) /\ WF_vars(Finish)

-----------------------------------------------------------------------------
(* Camel cards: Hand::evaluate with jokers *)

\* enum Card: the joker is the weakest card
JOKER == 1

\* enum HandType, by discriminant
FiveOfAKind == 7
FourOfAKind == 6
FullHouse == 5
ThreeOfAKind == 4
TwoPair == 3
OnePair == 2
HighCard == 1

\* two jokers beside a pair only make a full house
with_jokers_weak_two_pair(type, n) ==
    IF n = 0 THEN type
    ELSE CASE type = FiveOfAKind -> FiveOfAKind
           [] type = FourOfAKind -> FiveOfAKind
           [] type = FullHouse -> FiveOfAKind
           [] type = ThreeOfAKind -> FourOfAKind
           [] type = TwoPair /\ n = 2 -> FullHouse
           [] type = TwoPair /\ n = 1 -> FullHouse
           [] type = OnePair -> ThreeOfAKind
           [] type = HighCard -> OnePair
           [] OTHER -> type

\* HandType::with_jokers
with_jokers(type, n) ==
    IF n = 0 THEN type
    ELSE CASE type = FiveOfAKind -> FiveOfAKind
           [] type = FourOfAKind -> FiveOfAKind
           [] type = FullHouse -> FiveOfAKind
           [] type = ThreeOfAKind -> FourOfAKind
           [] type = TwoPair /\ n = 2 -> FourOfAKind
           [] type = TwoPair /\ n = 1 -> FullHouse
           [] type = OnePair -> ThreeOfAKind
           [] type = HighCard -> OnePair
           [] OTHER -> type

\* Hand::organized_cards: how many times each card of the hand occurs
organized_cards(cards) ==
    [c \in {cards[i] : i \in 1..Len(cards)} |->
        Cardinality({i \in 1..Len(cards) : cards[i] = c})]

RECURSIVE sorted_rev(_, _)
\* cards.values().sorted().rev(): the counts, largest first
sorted_rev(m, keys) ==
    IF keys = {} THEN <<>>
    ELSE LET k == CHOOSE k \in keys : \A l \in keys : m[k] >= m[l]
         IN  <<m[k]>> \o sorted_rev(m, keys \ {k})

\* Hand::evaluate: the type by the counts, the joker among them, then
\* raised by the number of jokers
evaluate(cards) ==
    LET organized == organized_cards(cards)
        counts == sorted_rev(organized, DOMAIN organized)
        jokers == IF JOKER \in DOMAIN organized THEN organized[JOKER] ELSE 0
        type == CASE Len(counts) >= 1 /\ counts[1] = 5 -> FiveOfAKind
                  [] Len(counts) >= 1 /\ counts[1] = 4 -> FourOfAKind
                  [] Len(counts) >= 2 /\ counts[1] = 3 /\ counts[2] = 2 -> FullHouse
                  [] Len(counts) >= 1 /\ counts[1] = 3 -> ThreeOfAKind
                  [] Len(counts) >= 2 /\ counts[1] = 2 /\ counts[2] = 2 -> TwoPair
                  [] Len(counts) >= 1 /\ counts[1] = 2 -> OnePair
                  [] OTHER -> HighCard
    IN  with_jokers(type, jokers)

\* the non-joker cards _2, _3, ... hands are dealt from
NonJokers == 2..(1 + MaxNonJokers)

\* Hand { cards: [Card; 5] }
Hands == [1..5 -> {JOKER} \cup NonJokers]

\* Hand::evaluate on a hand of five cards
Evaluate == \E hand \in Hands :
    /\ pc = "start"
    /\ pc' = "evaluated"
    /\ op' = "evaluate"
    /\ arg' = hand
    /\ result' = evaluate(hand)
    /\ UNCHANGED <<instructions, tables>>
    /\ UNCHANGED game_vars

HandNext == Evaluate

HandSpec == Init /\ [][HandNext]_vars

-----------------------------------------------------------------------------
(* Haunted wasteland: Network and total_steps_as_ghost *)

\* a node label is its sequence of characters
Node(a, b, c) == <<a, b, c>>

is_start_node(node) == Len(node) >= 1 /\ node[Len(node)] = "A"

is_end_node(node) == Len(node) >= 1 /\ node[Len(node)] = "Z"

Connection(from, left, right) == [from |-> from, left |-> left, right |-> right]

\* Connection::navigate
connection_navigate(c, direction) == IF direction = "Left" THEN c.left ELSE c.right

RECURSIVE take_step(_, _, _)
\* Network::take_step: the first connection from the node, followed in the
\* direction; None when the node has no connection
take_step(connections, from_node, in_direction) ==
    IF connections = <<>> THEN None
    ELSE IF from_node = Head(connections).from
         THEN Some(connection_navigate(Head(connections), in_direction))
         ELSE take_step(Tail(connections), from_node, in_direction)

\* the path never reaches an end node nor a node without connection:
\* count() does not return
Diverges == -1

RECURSIVE path_count(_, _, _, _)
\* navigate_path_to_end(..).count(): the directions are taken cyclically
\* until a step is impossible (that node is not counted) or leads to an end
\* node (that node is counted). After more steps than there are pairs of a
\* node and a position in the directions the walk is in a loop.
path_count(connections, directions, node, steps) ==
    IF directions = <<>> THEN 0
    ELSE LET next == take_step(connections, node, directions[(steps % Len(directions)) + 1])
         IN  IF next = None THEN steps
             ELSE IF is_end_node(next[1]) THEN steps + 1
             ELSE IF steps + 1 > Len(connections) * Len(directions) THEN Diverges
             ELSE path_count(connections, directions, next[1], steps + 1)

\* Network::start_nodes, in the order of the connections
start_nodes(connections) ==
    LET froms == [i \in 1..Len(connections) |-> connections[i].from]
    IN  SelectSeq(froms, is_start_node)

RECURSIVE gcd(_, _)
gcd(a, b) == IF b = 0 THEN a ELSE gcd(b, a % b)

\* num::integer::lcm, which is 0 when both numbers are 0
lcm(a, b) == IF a = 0 /\ b = 0 THEN 0 ELSE (a * b) \div gcd(a, b)

RECURSIVE reduce_lcm(_)
\* reduce(|a, b| lcm(a, b)) over at least one count
reduce_lcm(counts) ==
    IF Len(counts) = 1 THEN counts[1]
    ELSE reduce_lcm(<<lcm(counts[1], counts[2])>> \o SubSeq(counts, 3, Len(counts)))

\* the counts of the paths from the start nodes
path_counts(connections, directions) ==
    LET starts == start_nodes(connections)
    IN  [i \in 1..Len(starts) |-> path_count(connections, directions, starts[i], 0)]

\* total_steps_as_ghost after parse_input: lcm of the counts, 0 without a
\* start node
total_steps_as_ghost(connections, directions) ==
    LET counts == path_counts(connections, directions)
    IN  IF counts = <<>> THEN 0 ELSE reduce_lcm(counts)

\* the network of PART_TWO_EXAMPLES
ExampleConnections ==
    << Connection(Node("1", "1", "A"), Node("1", "1", "B"), Node("X", "X", "X")),
       Connection(Node("1", "1", "B"), Node("X", "X", "X"), Node("1", "1", "Z")),
       Connection(Node("1", "1", "Z"), Node("1", "1", "B"), Node("X", "X", "X")),
       Connection(Node("2", "2", "A"), Node("2", "2", "B"), Node("X", "X", "X")),
       Connection(Node("2", "2", "B"), Node("2", "2", "C"), Node("2", "2", "C")),
       Connection(Node("2", "2", "C"), Node("2", "2", "Z"), Node("2", "2", "Z")),
       Connection(Node("2", "2", "Z"), Node("2", "2", "B"), Node("2", "2", "B")),
       Connection(Node("X", "X", "X"), Node("X", "X", "X"), Node("X", "X", "X")) >>

ExampleDirections == <<"Left", "Right">>

\* the networks walked: the example's, and the example's with the left or
\* the right exit of one node leading to another node of the network
Networks ==
    {ExampleConnections} \cup
    {[ExampleConnections EXCEPT ![i].left = ExampleConnections[j].from] :
        i, j \in 1..Len(ExampleConnections)} \cup
    {[ExampleConnections EXCEPT ![i].right = ExampleConnections[j].from] :
        i, j \in 1..Len(ExampleConnections)}

DirectionLists == {ExampleDirections} \cup (SeqsUpTo({"Left", "Right"}, MaxDirections) \ {<<>>})

\* total_steps_as_ghost on a network and a list of directions; the call does
\* not return when the count of a path does not
TotalStepsAsGhost == \E connections \in Networks, directions \in DirectionLists :
    /\ pc = "start"
    /\ op' = "total_steps_as_ghost"
    /\ arg' = [connections |-> connections, directions |-> directions]
    /\ IF \E i \in 1..Len(path_counts(connections, directions)) :
              path_counts(connections, directions)[i] = Diverges
       THEN pc' = "diverged" /\ UNCHANGED result
       ELSE pc' = "returned" /\ result' = total_steps_as_ghost(connections, directions)
    /\ UNCHANGED <<instructions, tables>>
    /\ UNCHANGED game_vars

GhostNext == TotalStepsAsGhost

GhostSpec == Init /\ [][GhostNext]_vars

-----------------------------------------------------------------------------
(* What the claims say, stated on the text that was parsed *)

\* the rule line  to from length  covers coordinate n: from <= n < from + length
LineCovers(line, n) == line[2] <= n /\ n < line[2] + line[3]

\* no coordinate lies in the source intervals of two lines of the block
LinesDisjoint(lines) ==
    \A k, l \in 1..Len(lines) :
        k # l => (lines[k][2] + lines[k][3] <= lines[l][2]
                  \/ lines[l][2] + lines[l][3] <= lines[k][2]
                  \/ lines[k][3] <= 0 \/ lines[l][3] <= 0)

Returned(name) == pc = "returned" /\ op = name

\* the block of the table a lookup was made on, and the component looked up
LookupBlock == instructions[arg[1]]

LookupComponent == arg[2]

LookupOnSource ==
    /\ Returned("lookup")
    /\ LookupComponent.kind = parse_kind(LookupBlock.header[1])

\* C1 (identity fallback): a lookup of a component of the table's source
\* category whose coordinate no rule line covers returns the destination
\* category's component with the same coordinate.
C1_IdentityFallback ==
    LookupOnSource =>
        ((\A k \in 1..Len(LookupBlock.lines) :
              ~LineCovers(LookupBlock.lines[k], LookupComponent.number))
         => result = Some(Component(parse_kind(LookupBlock.header[2]), LookupComponent.number)))

\* a lookup, on a table with rules, of a coordinate next to a rule's interval
\* and in no rule's interval, came back unchanged
C1_Witness ==
    /\ LookupOnSource
    /\ Len(LookupBlock.lines) = 2
    /\ \A k \in 1..2 : ~LineCovers(LookupBlock.lines[k], LookupComponent.number)
    /\ \E k \in 1..2 : LookupComponent.number = LookupBlock.lines[k][2] + LookupBlock.lines[k][3]
                       /\ LookupBlock.lines[k][3] > 0
    /\ result = Some(Component(parse_kind(LookupBlock.header[2]), LookupComponent.number))

\* the first line of the block, in list order, that covers n
FirstCovering(lines, n) ==
    CHOOSE k \in 1..Len(lines) :
        LineCovers(lines[k], n) /\ \A l \in 1..(k - 1) : ~LineCovers(lines[l], n)

Shifted(block, line, n) == Some(Component(parse_kind(block.header[2]), n + line[1] - line[2]))

\* C2 (point lookup inside a rule): a lookup of a component of the source
\* category whose coordinate n lies in a rule's half-open interval
\* [from, from+length) returns the destination component n + offset of the
\* rule the scan finds, the first in list order that covers n; when the
\* rules are pairwise disjoint that is the one rule that covers n.
C2_LookupInsideRule ==
    LookupOnSource =>
        LET lines == LookupBlock.lines
            n == LookupComponent.number
        IN  /\ (\E k \in 1..Len(lines) : LineCovers(lines[k], n))
                => result = Shifted(LookupBlock, lines[FirstCovering(lines, n)], n)
            /\ LinesDisjoint(lines)
                => \A k \in 1..Len(lines) :
                       LineCovers(lines[k], n) => result = Shifted(LookupBlock, lines[k], n)

\* a lookup of the first coordinate after the first rule's interval, which
\* the second rule covers, came back shifted by the second rule's offset
C2_Witness ==
    /\ LookupOnSource
    /\ Len(LookupBlock.lines) = 2
    /\ LinesDisjoint(LookupBlock.lines)
    /\ LookupBlock.lines[1][3] > 0
    /\ LookupComponent.number = LookupBlock.lines[1][2] + LookupBlock.lines[1][3]
    /\ LineCovers(LookupBlock.lines[2], LookupComponent.number)
    /\ LookupBlock.lines[2][1] # LookupBlock.lines[2][2]
    /\ result = Shifted(LookupBlock, LookupBlock.lines[2], LookupComponent.number)

Parsed == pc \in {"ready", "returned"}

\* C10 (rule derivation): the rule built from the line  to from length  has
\* the source interval [from, from+length) and the offset to - from, so it
\* maps from+i to to+i for 0 <= i < length and nothing else.
C10_RuleDerivation ==
    Parsed =>
        \A i \in 1..Len(instructions) : \A k \in 1..Len(instructions[i].lines) :
            LET line == instructions[i].lines[k]
                rule == tables[i].rules[k]
            IN  /\ rule.range = [from |-> line[2], end |-> line[2] + line[3]]
                /\ rule.offset = line[1] - line[2]
                /\ \A j \in 0..(line[3] - 1) : apply(rule, line[2] + j) = Some(line[1] + j)
                /\ apply(rule, line[2] - 1) = None
                /\ apply(rule, line[2] + line[3]) = None

\* a table was parsed from a line whose destination start and source start
\* differ, and its rule maps the source start to the destination start
C10_Witness ==
    /\ Parsed
    /\ \E i \in 1..Len(instructions) : \E k \in 1..Len(instructions[i].lines) :
           LET line == instructions[i].lines[k]
           IN  /\ line[1] > line[2] /\ line[3] > 0
               /\ apply(tables[i].rules[k], line[2]) = Some(line[1])

RECURSIVE TotalLength(_)
TotalLength(pieces) ==
    IF pieces = <<>> THEN 0
    ELSE (Head(pieces).range.end - Head(pieces).range.from) + TotalLength(Tail(pieces))

\* the source interval of a piece: its destination interval moved back
SourceOf(piece) == Interval(piece.range.from - piece.shift, piece.range.end - piece.shift)

\* C9 (tiling): for a table with pairwise disjoint rules and an interval I,
\* the pieces of the interval-form lookup on I have total length len(I) and
\* their source intervals are non-empty, pairwise non-overlapping and cover
\* I: every coordinate of I lies in exactly one of them, and none lies
\* outside I.
C9_Tiling ==
    (Returned("lookup_interval") /\ LinesDisjoint(instructions[1].lines)) =>
        LET I == arg
            pieces == result
            In(k, n) == contains(SourceOf(pieces[k]), n)
        IN  /\ TotalLength(pieces) = Max2(0, I.end - I.from)
            /\ \A k \in 1..Len(pieces) :
                   /\ ~IsEmpty(pieces[k].range)
                   /\ I.from <= SourceOf(pieces[k]).from
                   /\ SourceOf(pieces[k]).end <= I.end
            /\ \A k, l \in 1..Len(pieces) :
                   k # l => (SourceOf(pieces[k]).end <= SourceOf(pieces[l]).from
                             \/ SourceOf(pieces[l]).end <= SourceOf(pieces[k]).from)
            /\ \A n \in I.from..(I.end - 1) : \E k \in 1..Len(pieces) : In(k, n)

\* an interval was split by two disjoint rules into two shifted pieces and
\* at least one unshifted piece
C9_Witness ==
    /\ Returned("lookup_interval")
    /\ LinesDisjoint(instructions[1].lines)
    /\ Len(instructions[1].lines) = 2
    /\ Len(result) >= 3
    /\ Cardinality({k \in 1..Len(result) : result[k].shift # 0}) = 2
    /\ \E k \in 1..Len(result) : result[k].shift = 0

-----------------------------------------------------------------------------
(* The category chain of the instructions *)

SourceOfBlock(block) == parse_kind(block.header[1])

DestinationOfBlock(block) == parse_kind(block.header[2])

\* no block's destination category differs from the next block's source
NoGap(instr) ==
    /\ ~parse_header_panics_any(instr)
    /\ \A j \in 1..(Len(instr) - 1) : DestinationOfBlock(instr[j]) = SourceOfBlock(instr[j + 1])

\* a component of this kind meets its own category at every table of the fold
ChainAccepts(instr, kind) ==
    /\ instr # <<>>
    /\ NoGap(instr)
    /\ SourceOfBlock(instr[1]) = kind

\* the chain runs from seed to location without a gap
Contiguous(instr) ==
    /\ ChainAccepts(instr, "Seed")
    /\ DestinationOfBlock(instr[Len(instr)]) = "Location"

\* C3 (category mismatch fails loudly): a minimizer run in which a lookup
\* met a component of another category than the table's source does not
\* return a value to its caller as if nothing had happened.
C3_MismatchFailsLoudly ==
    (Returned("lowest_of_bag") /\ arg # <<>>) => ChainAccepts(instructions, "Seed")

\* C4 (contiguity check): Almanac::parse on blocks whose category chain has
\* a gap, or does not run from seed to location, fails: no almanac is built
\* from them, so no query can run on one.
C4_BrokenChainFailsAtConstruction ==
    (pc # "start" /\ ~Contiguous(instructions)) => pc = "panicked"

\* C7 (no result only for no seeds): the minimizer returns None when the
\* seed line is empty and Some(minimum) for every non-empty one.
C7_NoneOnlyWhenEmpty ==
    Returned("lowest_of_bag") =>
        /\ arg = <<>> => result = None
        /\ arg # <<>> =>
               /\ result # None
               /\ \E i \in 1..Len(arg) :
                      result[1] = number(location_for(tables, Component("Seed", arg[i]))[1])
               /\ \A i \in 1..Len(arg) :
                      result[1] <= number(location_for(tables, Component("Seed", arg[i]))[1])

\* every block's rule lines are pairwise disjoint
RulesDisjoint(instr) == \A i \in 1..Len(instr) : LinesDisjoint(instr[i].lines)

\* the locations of the coordinates of I, each evaluated on its own
PointLocations(I) ==
    {number(location_for(tables, Component("Seed", n))[1]) : n \in I.from..(I.end - 1)}

\* C8 (monotone minimum): for a pipeline (a gap-free chain from seed, every
\* table's rules pairwise disjoint) and a seed interval I, the minimum start
\* among the terminal intervals of the interval evaluation of I equals the
\* minimum of location_for over every coordinate of I, which is what the
\* minimizer returns for the seed range I; both are None for an empty I.
C8_MonotoneMinimum ==
    (/\ Returned("lowest_of_farm")
     /\ Len(arg) >= 2
     /\ ChainAccepts(instructions, "Seed")
     /\ RulesDisjoint(instructions)) =>
        LET I == Interval(arg[1], arg[1] + arg[2])
            byIntervals == lowest_by_intervals(tables, I)
        IN  /\ result = byIntervals
            /\ IF IsEmpty(I) THEN byIntervals = None
               ELSE /\ byIntervals # None
                    /\ byIntervals[1] \in PointLocations(I)
                    /\ \A x \in PointLocations(I) : byIntervals[1] <= x

\* a seed range crossed two tables with rules, and the minimum is the
\* location of a coordinate inside the range, not of its first coordinate
C8_Witness ==
    /\ Returned("lowest_of_farm")
    /\ Len(arg) >= 2
    /\ arg[2] >= 3
    /\ ChainAccepts(instructions, "Seed")
    /\ RulesDisjoint(instructions)
    /\ Len(instructions) >= 2
    /\ \A i \in 1..2 : instructions[i].lines # <<>>
    /\ result # None
    /\ result = lowest_by_intervals(tables, Interval(arg[1], arg[1] + arg[2]))
    /\ result[1] < number(location_for(tables, Component("Seed", arg[1]))[1])

IsExample == instructions = ExampleInstructions

Seed(n) == Component("Seed", n)

Location(n) == Component("Location", n)

\* C5 (end-to-end scenario): on the published example location_for maps
\* the seeds 79, 14, 55, 13 to the locations 82, 43, 86, 35, and the
\* minimizer over these four seeds returns Some(35).
C5_EndToEnd ==
    IsExample =>
        /\ Returned("location_for") =>
               /\ arg = Seed(79) => result = Some(Location(82))
               /\ arg = Seed(14) => result = Some(Location(43))
               /\ arg = Seed(55) => result = Some(Location(86))
               /\ arg = Seed(13) => result = Some(Location(35))
        /\ (Returned("lowest_of_bag") /\ arg = <<79, 14, 55, 13>>) => result = Some(35)

\* the minimizer ran over the four seeds of the example
C5_Witness ==
    /\ IsExample
    /\ Returned("lowest_of_bag")
    /\ arg = <<79, 14, 55, 13>>
    /\ result = Some(35)

\* C6 (range scenario): on the published example, with the seed line read
\* as the (start, length) pairs (79,14) and (55,13), the minimizer over the
\* seed ranges returns Some(46).
C6_RangeScenario ==
    (IsExample /\ Returned("lowest_of_farm") /\ arg = <<79, 14, 55, 13>>) => result = Some(46)

\* the minimizer ran over the two seed ranges of the example
C6_Witness ==
    /\ IsExample
    /\ Returned("lowest_of_farm")
    /\ farm_new(arg) = <<Interval(79, 93), Interval(55, 68)>>
    /\ result = Some(46)

-----------------------------------------------------------------------------
(* Rule order, overlapping rules, single-stage correlation *)

\* the orders in which n rule lines can be listed
RuleOrders(n) == {p \in [1..n -> 1..n] : \A i, j \in 1..n : i # j => p[i] # p[j]}

Permuted(block, p) ==
    [header |-> block.header, lines |-> [k \in 1..Len(block.lines) |-> block.lines[p[k]]]]

\* C11 (rule order independence): for a table whose rule lines are pairwise
\* disjoint, the lookup of a component gives the same result on the table
\* parsed from every permutation of the block's rule lines.
C11_RuleOrderIndependence ==
    (Returned("lookup") /\ LinesDisjoint(LookupBlock.lines)) =>
        \A p \in RuleOrders(Len(LookupBlock.lines)) :
            lookup(parse_table(Permuted(LookupBlock, p)), LookupComponent) = result

\* a coordinate that only the last of several disjoint rules covers was
\* looked up and shifted by that rule
C11_Witness ==
    /\ LookupOnSource
    /\ LinesDisjoint(LookupBlock.lines)
    /\ Len(LookupBlock.lines) >= 2
    /\ LET lines == LookupBlock.lines
           n == LookupComponent.number
       IN  /\ LineCovers(lines[Len(lines)], n)
           /\ \A k \in 1..(Len(lines) - 1) : lines[k][3] > 0 /\ ~LineCovers(lines[k], n)
           /\ lines[Len(lines)][1] # lines[Len(lines)][2]
           /\ result = Shifted(LookupBlock, lines[Len(lines)], n)
           /\ result # Some(Component(parse_kind(LookupBlock.header[2]), n))

\* the lines of the block that cover n
Covering(lines, n) == {k \in 1..Len(lines) : LineCovers(lines[k], n)}

\* C17 (overlapping rules, first match): when two or more rule lines of the
\* table cover the coordinate, the lookup returns normally, with the
\* coordinate plus the offset of the covering rule that comes first in the
\* list, as it does for a table that keeps the disjointness contract.
C17_FirstMatchOnOverlap ==
    (LookupOnSource /\ Cardinality(Covering(LookupBlock.lines, LookupComponent.number)) >= 2) =>
        LET lines == LookupBlock.lines
            n == LookupComponent.number
            first == CHOOSE k \in Covering(lines, n) : \A l \in Covering(lines, n) : k <= l
        IN  /\ pc = "returned"
            /\ result = Shifted(LookupBlock, lines[first], n)

\* two rules with different offsets cover the coordinate and the result is
\* the first rule's, not the second's
C17_Witness ==
    /\ LookupOnSource
    /\ Len(LookupBlock.lines) = 2
    /\ Covering(LookupBlock.lines, LookupComponent.number) = {1, 2}
    /\ result = Shifted(LookupBlock, LookupBlock.lines[1], LookupComponent.number)
    /\ result # Shifted(LookupBlock, LookupBlock.lines[2], LookupComponent.number)

\* the blocks whose source category is the component's
SourcesOf(kind) == {i \in 1..Len(instructions) : SourceOfBlock(instructions[i]) = kind}

\* the lookup of component c in the table of block, stated on the text
LookupOnText(block, c) ==
    IF Covering(block.lines, c.number) = {}
    THEN Some(Component(DestinationOfBlock(block), c.number))
    ELSE Shifted(block, block.lines[FirstCovering(block.lines, c.number)], c.number)

\* C12 (single-stage correlation): correlate(c) is the lookup of c in the
\* first table, in list order, whose source category is c's category, so
\* its result is of that table's destination category; it is None exactly
\* when no table has c's category as its source.
C12_SingleStageCorrelation ==
    Returned("correlate") =>
        IF SourcesOf(arg.kind) = {} THEN result = None
        ELSE LET first == CHOOSE i \in SourcesOf(arg.kind) : \A j \in SourcesOf(arg.kind) : i <= j
             IN  /\ result # None
                 /\ result = LookupOnText(instructions[first], arg)
                 /\ result[1].kind = DestinationOfBlock(instructions[first])

\* two tables have the component's category as their source and give
\* different results; correlate returned the first table's
C12_Witness ==
    /\ Returned("correlate")
    /\ Cardinality(SourcesOf(arg.kind)) = 2
    /\ \E i, j \in SourcesOf(arg.kind) :
           /\ i < j
           /\ result = LookupOnText(instructions[i], arg)
           /\ result # LookupOnText(instructions[j], arg)

-----------------------------------------------------------------------------
(* Seed farm construction and iteration *)

\* the pairs (start, count) of the integers, in input order
PairsOf(numbers) == 1..(Len(numbers) \div 2)

PairCovers(numbers, i, n) ==
    numbers[2 * i - 1] <= n /\ n < numbers[2 * i - 1] + numbers[2 * i]

Occurrences(seq, x) == Cardinality({i \in 1..Len(seq) : seq[i] = x})

\* C16 (seed farm): SeedFarm::new on 2k or 2k+1 integers gives exactly k
\* fields in input order, field i being [n(2i), n(2i) + n(2i+1)) (0-based),
\* an unpaired last integer adding no field and no error; SeedFarm::iter
\* yields only seeds, and each coordinate as many times as there are fields
\* that contain it.
C16_SeedFarm ==
    /\ pc = "farm" =>
          /\ Len(result) = Len(arg) \div 2
          /\ \A i \in PairsOf(arg) :
                 /\ result[i].from = arg[2 * i - 1]
                 /\ result[i].end = arg[2 * i - 1] + arg[2 * i]
    /\ pc = "iterated" =>
          /\ \A i \in 1..Len(result) : result[i].kind = "Seed"
          /\ \A n \in (0..(2 * MaxFarmCoord)) \cup {result[i].number : i \in 1..Len(result)} :
                 Occurrences(result, Seed(n)) =
                     Cardinality({i \in PairsOf(arg) : PairCovers(arg, i, n)})

\* an odd number of integers with two overlapping fields was iterated and a
\* coordinate of the overlap came out twice
C16_Witness ==
    /\ pc = "iterated"
    /\ Len(arg) = 5
    /\ \E n \in 0..(2 * MaxFarmCoord) :
           /\ PairCovers(arg, 1, n) /\ PairCovers(arg, 2, n)
           /\ Occurrences(result, Seed(n)) = 2
    /\ arg[1] # arg[3]

-----------------------------------------------------------------------------
(* Scratchcards: what claim_prizes returns and how its loop proceeds *)

\* the winners of a card, read off the card's numbers
Wins(card) ==
    Cardinality({i \in 1..Len(card.own_numbers) :
                    card.own_numbers[i] \in {card.winning_numbers[j] : j \in 1..Len(card.winning_numbers)}})

\* cards 1..N ascending, every card winning only cards of the deck
ValidDeck(cards) ==
    /\ \A i \in 1..Len(cards) : cards[i].id = i /\ ~cards[i].is_copy
    /\ \A i \in 1..Len(cards) : i + Wins(cards[i]) <= Len(cards)

RECURSIVE ExpectedCount(_, _)
\* count[k] = 1 + the sum of count[j] over the j < k with j + winners(j) >= k
ExpectedCount(cards, k) ==
    LET Winners == {j \in 1..(k - 1) : j + Wins(cards[j]) >= k}
        Sum[S \in SUBSET Winners] ==
            IF S = {} THEN 0
            ELSE LET j == CHOOSE x \in S : TRUE
                 IN  ExpectedCount(cards, j) + Sum[S \ {j}]
    IN  1 + Sum[Winners]

WithId(cards, k) == Cardinality({i \in 1..Len(cards) : cards[i].id = k})

Elements(cards) == {cards[i] : i \in 1..Len(cards)}

\* C13 (prize counts): on a deck of cards 1..N in ascending order where
\* every card wins only cards of the deck, claim_prizes returns
\* (originals, prizes) where originals holds exactly the N input cards,
\* prizes holds only copies, and for every id k the two decks together hold
\* count[k] = 1 + sum of count[j] over j < k with j + winners(j) >= k cards.
C13_PrizeCounts ==
    (pc = "done" /\ op = "claim_prizes" /\ ValidDeck(arg)) =>
        /\ Len(result[1]) = Len(arg)
        /\ Elements(result[1]) = Elements(arg)
        /\ \A i \in 1..Len(result[2]) : result[2][i].is_copy
        /\ \A k \in 1..Len(arg) :
               WithId(result[1], k) + WithId(result[2], k) = ExpectedCount(arg, k)
        /\ \A i \in 1..Len(result[2]) : result[2][i].id \in 1..Len(arg)

\* a deck in which card 1 wins two cards through a repeated own number was
\* played to the end and the last card came out four times or more
C13_Witness ==
    /\ pc = "done" /\ op = "claim_prizes" /\ ValidDeck(arg)
    /\ Len(arg) >= 3
    /\ arg[1].own_numbers = <<1, 1>>
    /\ WithId(result[1], Len(arg)) + WithId(result[2], Len(arg)) >= 4

HasOriginal(cards, k) == \E i \in 1..Len(cards) : cards[i].id = k /\ ~cards[i].is_copy

\* C18 (originals before copies): whenever the loop is about to draw a card
\* k, originals already holds the original of every id in k+1..N, so every
\* claim_copy(k + n) with n in 1..winners and k + n <= N is Some; the loop
\* only leaves by the unwrap when the drawn card has k + winners > N.
C18_OriginalsBeforeCopies ==
    /\ (pc = "loop" /\ deck # <<>>) =>
          LET card == deck[Len(deck)]
          IN  /\ \A j \in (card.id + 1)..Len(arg) : HasOriginal(originals, j)
              /\ \A n \in 1..Wins(card) :
                     card.id + n <= Len(arg) => claim_copy(originals, card.id + n) # None
    /\ pc = "panicked" =>
          LET card == drawn[Len(drawn)]
          IN  card.id + Wins(card) > Len(arg)

\* a copy that wins a card is about to be drawn while originals are still
\* waiting below it on the deck
C18_Witness ==
    /\ pc = "loop" /\ Len(deck) >= 2
    /\ deck[Len(deck)].is_copy
    /\ Wins(deck[Len(deck)]) >= 1
    /\ ~deck[1].is_copy
    /\ claim_copy(originals, deck[Len(deck)].id + 1) # None

BagOf(cards) == [c \in Elements(cards) |-> Cardinality({i \in 1..Len(cards) : cards[i] = c})]

\* C19 (termination): on a deck of cards 1..N in ascending order where every
\* card wins only cards of the deck, every copy put back on the deck has an
\* id greater than the id of the card just drawn, the loop ends, and at the
\* end every card that was drawn is in exactly one of originals and prizes.
C19_Termination ==
    /\ [][(pc = "loop" /\ ValidDeck(arg) /\ drawn' # drawn) =>
             /\ Len(deck') >= Len(deck) - 1
             /\ \A i \in Len(deck)..Len(deck') : deck'[i].id > drawn'[Len(drawn')].id]_vars
    /\ (pc = "loop" /\ ValidDeck(arg)) ~> (pc = "done")
    /\ []((pc = "done" /\ op = "claim_prizes" /\ ValidDeck(arg)) =>
             /\ BagOf(drawn) = BagOf(originals) (+) BagOf(prizes)
             /\ \A i \in 1..Len(originals) : ~originals[i].is_copy
             /\ \A i \in 1..Len(prizes) : prizes[i].is_copy
             /\ deck = <<>>)

\* the loop ended after drawing more cards than the deck had at the start
C19_Witness ==
    /\ pc = "done" /\ op = "claim_prizes" /\ ValidDeck(arg)
    /\ Len(drawn) > Len(arg) + 2
    /\ Len(prizes) + Len(originals) = Len(drawn)

-----------------------------------------------------------------------------
(* Camel cards: the joker rule *)

\* the type of a hand by the ordinary rule: by the number of different
\* cards and the largest number of equal cards
OrdinaryType(hand) ==
    LET kinds == {hand[i] : i \in 1..5}
        most == CHOOSE m \in 1..5 :
                    /\ \E c \in kinds : Cardinality({i \in 1..5 : hand[i] = c}) = m
                    /\ \A c \in kinds : Cardinality({i \in 1..5 : hand[i] = c}) <= m
    IN  CASE Cardinality(kinds) = 1 -> FiveOfAKind
          [] Cardinality(kinds) = 2 /\ most = 4 -> FourOfAKind
          [] Cardinality(kinds) = 2 /\ most = 3 -> FullHouse
          [] Cardinality(kinds) = 3 /\ most = 3 -> ThreeOfAKind
          [] Cardinality(kinds) = 3 /\ most = 2 -> TwoPair
          [] Cardinality(kinds) = 4 -> OnePair
          [] OTHER -> HighCard

JokersOf(hand) == {i \in 1..5 : hand[i] = JOKER}

\* the hands obtained by replacing every joker with some non-joker card
Replacements(hand) ==
    {[i \in 1..5 |-> IF i \in JokersOf(hand) THEN r[i] ELSE hand[i]] :
        r \in [JokersOf(hand) -> NonJokers]}

\* C15 (joker substitution): Hand::evaluate returns the strongest type that
\* replacing each joker of the hand with some non-joker card can give by
\* the ordinary rule; five jokers are FiveOfAKind; a hand without jokers
\* has its ordinary type.
C15_JokerSubstitution ==
    (pc = "evaluated" /\ op = "evaluate") =>
        /\ \E h \in Replacements(arg) : OrdinaryType(h) = result
        /\ \A h \in Replacements(arg) : OrdinaryType(h) <= result
        /\ JokersOf(arg) = 1..5 => result = FiveOfAKind
        /\ JokersOf(arg) = {} => result = OrdinaryType(arg)

\* two jokers beside a pair and a fifth card were evaluated as four of a kind
C15_Witness ==
    /\ pc = "evaluated" /\ op = "evaluate"
    /\ Cardinality(JokersOf(arg)) = 2
    /\ Cardinality({arg[i] : i \in 1..5}) = 3
    /\ \E i, j \in 1..5 : i # j /\ arg[i] = arg[j] /\ arg[i] # JOKER
    /\ result = FourOfAKind

-----------------------------------------------------------------------------
(* Haunted wasteland: the ghosts' walk *)

RECURSIVE PositionAfter(_, _, _, _)
\* where the walker started on node is after k steps along the cyclic
\* directions; None when a step was impossible
PositionAfter(connections, directions, node, k) ==
    IF k = 0 THEN Some(node)
    ELSE LET before == PositionAfter(connections, directions, node, k - 1)
         IN  IF before = None THEN None
             ELSE take_step(connections, before[1], directions[((k - 1) % Len(directions)) + 1])

\* the nodes that the connections lead from and that end with A
StartNodes(connections) ==
    {connections[i].from : i \in {j \in 1..Len(connections) : is_start_node(connections[j].from)}}

\* after k steps every walker is on a node that ends with Z
AllOnEnd(connections, directions, k) ==
    \A node \in StartNodes(connections) :
        LET at == PositionAfter(connections, directions, node, k)
        IN  at # None /\ is_end_node(at[1])

\* C14 (ghost navigation): the number that total_steps_as_ghost returns is
\* the least k >= 1 such that after k steps all walkers, started on every
\* node ending with A and following the directions cyclically, are on nodes
\* ending with Z at the same time.
C14_LeastSimultaneousArrival ==
    Returned("total_steps_as_ghost") =>
        /\ result >= 1
        /\ AllOnEnd(arg.connections, arg.directions, result)
        /\ \A k \in 1..(result - 1) : ~AllOnEnd(arg.connections, arg.directions, k)

====
